---- MODULE Spec2Model ----
(***************************************************************************)
(* NeighborNexus: the Notification Hub (services/websocket.go and          *)
(* handlers/websocket.go) and the Match Ranker (services/matching.go).     *)
(*                                                                         *)
(* Hub.  Every goroutine of the program is a process of the model: the     *)
(* hub loop (Start), one HandleWebSocket handler, one readPump and one     *)
(* writePump per connection, and one goroutine per send call.  A send      *)
(* call holds the registry's read lock while it ranges over the registry;  *)
(* one step of a call is one pass through the loop body (the select on     *)
(* one client's Send channel).  Send calls run concurrently with each      *)
(* other and with the pumps; the hub loop's register and unregister cases  *)
(* take the write lock and so wait until no call is in its loop.           *)
(***************************************************************************)
EXTENDS Integers, Sequences, FiniteSets, TLC

\* Bounds of the model.  Spec follows connections through their whole life:
\* LiveConns connections are accepted and MaxCalls send calls made.
\* SpecSmall and SpecOne do so for a single connection, with MaxCalls calls
\* and with OneConnCalls calls on a longer queue.  SpecSend starts from
\* MaxConns registered connections and makes MaxCalls calls.
MaxConns == 3
LiveConns == 2
MaxCalls == 2
OneConnCalls == 2
\* Capacity of a client's Send channel (make(chan []byte, 256)): the model
\* takes a small capacity so that a full queue is reached, one in Spec,
\* SpecSmall and SpecSend and another in SpecOne.
SendCap == 1
OneConnCap == 2

Conns == 1..MaxConns
Users == {"u1", "u2"}
\* Identities of needs (primitive.NewObjectID in CreateNeed).
NeedIDs == {"n1", "n2"}
Msgs == 1..(IF MaxCalls > OneConnCalls THEN MaxCalls ELSE OneConnCalls)
\* The "connected" greeting of HandleWebSocket, as a message identity.
Welcome == 0

VARIABLES
    started,     \* the hub loop Start() is running
    crashed,     \* the process died (unrecovered panic or runtime fatal error)
    clients,     \* ws.clients: the identities in the registry
    hub,         \* position of the hub loop: [pc, arg]
    h,           \* position of HandleWebSocket for each connection
    owner,       \* client.UserID
    open,        \* client.Conn is open
    rd,          \* position of readPump
    wr,          \* position of writePump
    Send,        \* client.Send: the buffered contents of the channel
    closed,      \* client.Send has been closed
    call,        \* the send calls, one per message identity
    written,     \* history: messages written to the transport, in order
    closeFrame,  \* history: a close frame was written to the transport
    enq,         \* history: messages ever put on client.Send, in order
    closeCalls,  \* history: number of close(client.Send) executed
    faults,      \* history: kinds of panic / fatal error that happened
    evicted,     \* history: the connections removed for a full queue
    missed,      \* history: <<m, u>>, call m was for user u, who had no
                 \* connection in the registry
    scope,       \* the bounds in force: [conns, calls, cap]
    rk,          \* the Match Ranker: inputs and result of the last call
    ask,         \* the IsUserConnected call: [st, u, start, ret]
    needStore,   \* the needs collection: need id -> [UserID, Status]
    notes,       \* history: the notifications the handlers asked for
    sim,         \* a CalculateSimilarity call: its arguments and what it returned
    volunteerStore, \* the volunteers collection, in the order of insertion
    resp,        \* the last response of CreateNeed or CreateProfile
    accept,      \* the AcceptNeed request of each user: [pc, n, status]
    tasks,       \* the tasks collection, in the order of insertion
    auth         \* the last call of the AuthService: [op, token, err, pair]

otherVars == <<sim, volunteerStore, resp, accept, tasks, auth>>
hubVars == <<started, crashed, clients, hub, h, owner, open, rd, wr, Send,
             closed, call, written, closeFrame, enq, closeCalls, faults, evicted, missed>>
vars == <<started, crashed, clients, hub, h, owner, open, rd, wr, Send,
          closed, call, written, closeFrame, enq, closeCalls, faults, evicted,
          missed, scope, rk,
                   ask, needStore, notes, otherVars>>

\* A send call: st is "none" (not made), "run" (in its loop, holding the read
\* lock), "done" (returned or panicked) or "killed"; bcast and S say whom it
\* is for, cur is the client the range has yielded, visited the clients dealt
\* with; after (history) is the set of calls that had ended when it began,
\* late (history) says that a connection had been evicted when it began.
NoCall == [st |-> "none", bcast |-> FALSE, S |-> {}, cur |-> {}, visited |-> {},
           after |-> {}, late |-> FALSE, ok |-> TRUE]

Ended(m) == [NoCall EXCEPT !.st = "done", !.after = call[m].after, !.ok = call[m].ok]

\* NewWebSocketService: empty registry, unbuffered channels, nothing running.
NewWebSocketService ==
    /\ crashed = FALSE
    /\ clients = {}
    /\ hub = [pc |-> "select", arg |-> {}]
    /\ h = [c \in Conns |-> "new"]
    /\ owner = [c \in Conns |-> "u1"]
    /\ open = [c \in Conns |-> FALSE]
    /\ rd = [c \in Conns |-> "none"]
    /\ wr = [c \in Conns |-> "none"]
    /\ Send = [c \in Conns |-> <<>>]
    /\ closed = [c \in Conns |-> FALSE]
    /\ call = [m \in Msgs |-> NoCall]
    /\ written = [c \in Conns |-> <<>>]
    /\ closeFrame = [c \in Conns |-> FALSE]
    /\ enq = [c \in Conns |-> <<>>]
    /\ closeCalls = [c \in Conns |-> 0]
    /\ faults = {}
    /\ evicted = {}
    /\ missed = {}

\* No query answered, no need in the store, no notification asked for.
NoAnswer == [st |-> "none", u |-> "none", start |-> FALSE, ret |-> FALSE]
NoNeed == [UserID |-> "none", Status |-> "none", Embedding |-> <<>>]
NoAuth == [op |-> "none", token |-> <<>>, err |-> "", pair |-> <<>>]
NoAccept == [pc |-> "idle", n |-> "none", status |-> 0]
NoResponse == [op |-> "none", status |-> 0, embedOk |-> TRUE, id |-> "none"]
NoNotes == [accepted |-> {}, newNeed |-> {}]

\* The volunteers collection: a profile has its own identity (ID) and the
\* identity of the user it belongs to (UserID).
Volunteers ==
    <<[ID |-> "v1", UserID |-> "u1", Embedding |-> <<1, 0>>, Location |-> 0],
      [ID |-> "v2", UserID |-> "u2", Embedding |-> <<3, 4>>, Location |-> 2000]>>

\* No call of CalculateSimilarity under observation.
NoSim == [pc |-> "none", embedding1 |-> <<>>, embedding2 |-> <<>>, val |-> 0, err |-> ""]

\* The request handlers at rest.
HandlersIdle ==
    /\ ask = NoAnswer
    /\ needStore = [n \in NeedIDs |-> NoNeed]
    /\ notes = NoNotes
    /\ sim = NoSim
    /\ volunteerStore = Volunteers
    /\ resp = NoResponse
    /\ accept = [u \in Users |-> NoAccept]
    /\ tasks = <<>>
    /\ auth = NoAuth

\* The ranker at rest (the hub specifications never call it).
RankIdle == [pc |-> "idle", who |-> "none", subject |-> <<>>, pool |-> <<>>,
             fetchOk |-> TRUE, limit |-> 0, now |-> 0, res |-> <<>>, err |-> FALSE]

\* The send calls that hold the read lock (are inside their range loop).
Readers == {m \in Msgs : call[m].st = "run"}

\* The next unused message identity.
NextMsg == Cardinality({m \in Msgs : call[m].st # "none"}) + 1

\* The process dies: every goroutine ends and the kernel closes every socket.
Die(fault) ==
    /\ crashed' = TRUE
    /\ faults' = faults \cup {fault}
    /\ hub' = [pc |-> "dead", arg |-> {}]
    /\ h' = [c \in Conns |-> IF h[c] \in {"register", "welcome"} THEN "dead" ELSE h[c]]
    /\ rd' = [c \in Conns |-> IF rd[c] \in {"run", "unreg", "close"} THEN "dead" ELSE rd[c]]
    /\ wr' = [c \in Conns |-> IF wr[c] = "run" THEN "dead" ELSE wr[c]]
    /\ open' = [c \in Conns |-> FALSE]
    /\ call' = [m \in Msgs |-> IF call[m].st = "run"
                                 THEN [call[m] EXCEPT !.st = "killed"] ELSE call[m]]

\* HandleWebSocket up to the register send: the request is authenticated as
\* user u, upgraded, and the client is created with a fresh identity and an
\* empty Send channel; the handler then blocks on ws.register.
HandleWebSocket(c, u) ==
    /\ ~crashed
    /\ h[c] = "new"
    /\ c <= scope.conns
    /\ \A d \in Conns : d < c => h[d] # "new" /\ (owner[d] = "u1" \/ u = "u2")
    /\ h' = [h EXCEPT ![c] = "register"]
    /\ owner' = [owner EXCEPT ![c] = u]
    /\ open' = [open EXCEPT ![c] = TRUE]
    /\ UNCHANGED <<started, crashed, clients, hub, rd, wr, Send, closed, call,
                   written, closeFrame, enq, closeCalls, faults, evicted, missed, scope, rk,
                   ask, needStore, notes, otherVars>>

\* case client := <-ws.register: the rendezvous on the unbuffered channel.
\* The handler goes on (go readPump, go writePump) while the hub loop goes
\* for the write lock.
RecvRegister(c) ==
    /\ started /\ ~crashed
    /\ hub.pc = "select"
    /\ h[c] = "register"
    /\ hub' = [pc |-> "register", arg |-> {c}]
    /\ h' = [h EXCEPT ![c] = "welcome"]
    /\ rd' = [rd EXCEPT ![c] = "run"]
    /\ wr' = [wr EXCEPT ![c] = "run"]
    /\ UNCHANGED <<started, crashed, clients, owner, open, Send, closed, call,
                   written, closeFrame, enq, closeCalls, faults, evicted, missed, scope, rk,
                   ask, needStore, notes, otherVars>>

\* A registry keyed by the user: ws.clients[client.UserID] = client.
RegisterByUser ==
    /\ hub.pc = "register"
    /\ Readers = {} /\ ask.st # "run"
    /\ clients' = {d \in clients : \A c \in hub.arg : owner[d] # owner[c]} \cup hub.arg
    /\ hub' = [pc |-> "select", arg |-> {}]
    /\ UNCHANGED <<started, crashed, h, owner, open, rd, wr, Send, closed, call,
                   written, closeFrame, enq, closeCalls, faults, evicted, missed, scope, rk,
                   ask, needStore, notes, otherVars>>

\* A registration that also hands the new connection a message its owner
\* missed.
RegisterReplay ==
    /\ hub.pc = "register"
    /\ Readers = {} /\ ask.st # "run"
    /\ clients' = clients \cup hub.arg
    /\ hub' = [pc |-> "select", arg |-> {}]
    /\ LET old(c) == {p[1] : p \in {q \in missed : q[2] = owner[c]}}
           replay(c, q) == IF c \in hub.arg /\ old(c) # {} /\ Len(Send[c]) < scope.cap
                             THEN Append(q, CHOOSE m \in old(c) : TRUE) ELSE q
       IN  /\ Send' = [c \in Conns |-> replay(c, Send[c])]
           /\ enq' = [c \in Conns |-> replay(c, enq[c])]
    /\ UNCHANGED <<started, crashed, h, owner, open, rd, wr, closed, call,
                   written, closeFrame, closeCalls, faults, evicted, missed, scope, rk,
                   ask, needStore, notes, otherVars>>

\* Lock; ws.clients[client.ID] = client; Unlock.
Register ==
    /\ hub.pc = "register"
    /\ Readers = {} /\ ask.st # "run"
    /\ clients' = clients \cup hub.arg
    /\ hub' = [pc |-> "select", arg |-> {}]
    /\ UNCHANGED <<started, crashed, h, owner, open, rd, wr, Send, closed, call,
                   written, closeFrame, enq, closeCalls, faults, evicted, missed, scope, rk,
                   ask, needStore, notes, otherVars>>

\* HandleWebSocket, the greeting: client.Send <- data, a blocking send made
\* outside every lock.  It waits while the channel is full and panics when
\* the channel is (or gets) closed; gin's Recovery ends the handler.
SendWelcome(c) ==
    /\ h[c] = "welcome"
    /\ h' = [h EXCEPT ![c] = "done"]
    /\ IF closed[c]
         THEN /\ faults' = faults \cup {"send on closed channel"}
              /\ UNCHANGED <<Send, enq>>
         ELSE /\ Len(Send[c]) < scope.cap
              /\ Send' = [Send EXCEPT ![c] = Append(@, Welcome)]
              /\ enq' = [enq EXCEPT ![c] = Append(@, Welcome)]
              /\ UNCHANGED faults
    /\ UNCHANGED <<started, crashed, clients, hub, owner, open, rd, wr, closed,
                   call, written, closeFrame, closeCalls, evicted, missed, scope, rk,
                   ask, needStore, notes, otherVars>>

\* readPump: ReadMessage fails (the peer went away, the read deadline
\* passed, or the transport was closed); the deferred function then blocks
\* on ws.unregister.
readPump(c) ==
    /\ rd[c] = "run"
    /\ rd' = [rd EXCEPT ![c] = "unreg"]
    /\ UNCHANGED <<started, crashed, clients, hub, h, owner, open, wr, Send,
                   closed, call, written, closeFrame, enq, closeCalls, faults, evicted, missed, scope, rk,
                   ask, needStore, notes, otherVars>>

\* case client := <-ws.unregister: the rendezvous; readPump's deferred
\* function goes on to close the transport.
RecvUnregister(c) ==
    /\ started /\ ~crashed
    /\ hub.pc = "select"
    /\ rd[c] = "unreg"
    /\ hub' = [pc |-> "unregister", arg |-> {c}]
    /\ rd' = [rd EXCEPT ![c] = "close"]
    /\ UNCHANGED <<started, crashed, clients, h, owner, open, wr, Send, closed, call,
                   written, closeFrame, enq, closeCalls, faults, evicted, missed, scope, rk,
                   ask, needStore, notes, otherVars>>

\* readPump's deferred function, c.Conn.Close(); the goroutine ends.
readPumpClose(c) ==
    /\ rd[c] = "close"
    /\ rd' = [rd EXCEPT ![c] = "exit"]
    /\ open' = [open EXCEPT ![c] = FALSE]
    /\ UNCHANGED <<started, crashed, clients, hub, h, owner, wr, Send, closed, call,
                   written, closeFrame, enq, closeCalls, faults, evicted, missed, scope, rk,
                   ask, needStore, notes, otherVars>>

\* An unregistration without the registry test: delete and close always.
UnregisterAlways ==
    /\ hub.pc = "unregister"
    /\ Readers = {} /\ ask.st # "run"
    /\ hub' = [pc |-> "select", arg |-> {}]
    /\ \E c \in hub.arg :
         /\ clients' = clients \ {c}
         /\ closed' = [closed EXCEPT ![c] = TRUE]
         /\ closeCalls' = [closeCalls EXCEPT ![c] = @ + 1]
    /\ UNCHANGED <<started, crashed, h, owner, open, rd, wr, Send, call,
                   written, closeFrame, enq, faults, evicted, missed, scope, rk,
                   ask, needStore, notes, otherVars>>

\* Lock; if the client is in the registry: delete it and close its Send
\* channel; Unlock.
Unregister ==
    /\ hub.pc = "unregister"
    /\ Readers = {} /\ ask.st # "run"
    /\ hub' = [pc |-> "select", arg |-> {}]
    /\ \E c \in hub.arg :
         IF c \in clients
           THEN /\ clients' = clients \ {c}
                /\ closed' = [closed EXCEPT ![c] = TRUE]
                /\ closeCalls' = [closeCalls EXCEPT ![c] = @ + 1]
           ELSE UNCHANGED <<clients, closed, closeCalls>>
    /\ UNCHANGED <<started, crashed, h, owner, open, rd, wr, Send, call,
                   written, closeFrame, enq, faults, evicted, missed, scope, rk,
                   ask, needStore, notes, otherVars>>

\* A writePump that takes the newest message off the queue.
writeMessageLast(c, ok) ==
    /\ wr[c] = "run"
    /\ Send[c] # <<>>
    /\ Send' = [Send EXCEPT ![c] = SubSeq(@, 1, Len(@) - 1)]
    /\ IF ok /\ open[c]
         THEN /\ written' = [written EXCEPT ![c] = Append(@, Send[c][Len(Send[c])])]
              /\ UNCHANGED <<wr, open>>
         ELSE /\ wr' = [wr EXCEPT ![c] = "exit"]
              /\ open' = [open EXCEPT ![c] = FALSE]
              /\ UNCHANGED written
    /\ UNCHANGED <<started, crashed, clients, hub, h, owner, rd, closed, call,
                   closeFrame, enq, closeCalls, faults, evicted, missed, scope, rk,
                   ask, needStore, notes, otherVars>>

\* writePump, case message, ok := <-c.Send with a message: it is taken off
\* the channel (a closed channel still yields what it buffers) and written;
\* when the write fails the pump returns and its deferred Close runs.
writeMessage(c, ok) ==
    /\ wr[c] = "run"
    /\ Send[c] # <<>>
    /\ Send' = [Send EXCEPT ![c] = Tail(@)]
    /\ IF ok /\ open[c]
         THEN /\ written' = [written EXCEPT ![c] = Append(@, Head(Send[c]))]
              /\ UNCHANGED <<wr, open>>
         ELSE /\ wr' = [wr EXCEPT ![c] = "exit"]
              /\ open' = [open EXCEPT ![c] = FALSE]
              /\ UNCHANGED written
    /\ UNCHANGED <<started, crashed, clients, hub, h, owner, rd, closed, call,
                   closeFrame, enq, closeCalls, faults, evicted, missed, scope, rk,
                   ask, needStore, notes, otherVars>>

\* writePump, case message, ok := <-c.Send with ok = false (closed and
\* drained): a close frame is written, its result ignored; the pump returns.
writeClose(c, ok) ==
    /\ wr[c] = "run"
    /\ Send[c] = <<>> /\ closed[c]
    /\ closeFrame' = [closeFrame EXCEPT ![c] = ok /\ open[c]]
    /\ wr' = [wr EXCEPT ![c] = "exit"]
    /\ open' = [open EXCEPT ![c] = FALSE]
    /\ UNCHANGED <<started, crashed, clients, hub, h, owner, rd, Send, closed,
                   call, written, enq, closeCalls, faults, evicted, missed, scope, rk,
                   ask, needStore, notes, otherVars>>

\* writePump, case <-ticker.C: the ping cannot be written; the pump returns.
\* (A ping that is written changes nothing.)
writePing(c) ==
    /\ wr[c] = "run"
    /\ wr' = [wr EXCEPT ![c] = "exit"]
    /\ open' = [open EXCEPT ![c] = FALSE]
    /\ UNCHANGED <<started, crashed, clients, hub, h, owner, rd, Send, closed,
                   call, written, closeFrame, enq, closeCalls, faults, evicted, missed, scope, rk,
                   ask, needStore, notes, otherVars>>

\* The loop's filter: SendToUser compares client.UserID with userID,
\* SendToMultipleUsers looks it up in userIDSet, broadcastMessage has none.
Targets(m, c) == call[m].bcast \/ owner[c] \in call[m].S

\* A call that goes on with the data of a failed json.Marshal.
BeginCallUnchecked(m, bcast, S, marshalOk) ==
    LET before == {n \in Msgs : call[n].st \notin {"none", "run"}}
        todo == {c \in clients : bcast \/ owner[c] \in S}
    IN  /\ IF todo = {}
             THEN call' = [call EXCEPT ![m] = [NoCall EXCEPT !.st = "done", !.after = before,
                                                             !.ok = marshalOk]]
             ELSE \E c \in todo :
                    call' = [call EXCEPT ![m] =
                               [st |-> "run", bcast |-> bcast, S |-> S, cur |-> {c},
                                visited |-> {}, after |-> before,
                                late |-> evicted # {}, ok |-> marshalOk]]
        /\ missed' = missed \cup
                        {<<m, u>> : u \in {v \in S : \A c \in clients : owner[c] # v}}

\* json.Marshal, RLock, and the first client the range yields.  When
\* json.Marshal fails the call logs and returns; with no client to visit the
\* loop body never runs and the call returns.  ok records what json.Marshal
\* gave.
BeginCall(m, bcast, S, marshalOk) ==
    LET before == {n \in Msgs : call[n].st \notin {"none", "run"}}
        todo == {c \in clients : bcast \/ owner[c] \in S}
    IN  /\ IF ~marshalOk \/ todo = {}
             THEN call' = [call EXCEPT ![m] = [NoCall EXCEPT !.st = "done", !.after = before,
                                                             !.ok = marshalOk]]
             ELSE \E c \in todo :
                    call' = [call EXCEPT ![m] =
                               [st |-> "run", bcast |-> bcast, S |-> S, cur |-> {c},
                                visited |-> {}, after |-> before,
                                late |-> evicted # {}, ok |-> TRUE]]
        /\ missed' = missed \cup
                        {<<m, u>> : u \in {v \in S : \A c \in clients : owner[c] # v}}

\* SendToUser(userID, message), called from a request handler's goroutine.
\* A pending Lock of the hub loop keeps new readers out.
SendToUser(u, marshalOk) ==
    /\ ~crashed
    /\ NextMsg <= scope.calls
    /\ hub.pc \notin {"register", "unregister"}
    /\ BeginCall(NextMsg, FALSE, {u}, marshalOk)
    /\ UNCHANGED <<started, crashed, clients, hub, h, owner, open, rd, wr, Send,
                   closed, written, closeFrame, enq, closeCalls, faults, evicted, scope, rk,
                   ask, needStore, notes, otherVars>>

\* SendToMultipleUsers(userIDs, message): userIDSet is the set of the ids.
SendToMultipleUsers(ids, marshalOk) ==
    /\ ~crashed
    /\ NextMsg <= scope.calls
    /\ hub.pc \notin {"register", "unregister"}
    /\ BeginCall(NextMsg, FALSE, ids, marshalOk)
    /\ UNCHANGED <<started, crashed, clients, hub, h, owner, open, rd, wr, Send,
                   closed, written, closeFrame, enq, closeCalls, faults, evicted, scope, rk,
                   ask, needStore, notes, otherVars>>

\* case message := <-ws.broadcast, then broadcastMessage(message) up to the
\* first client; the hub loop stays in broadcastMessage until it returns.
RecvBroadcast(marshalOk) ==
    /\ started /\ ~crashed
    /\ hub.pc = "select"
    /\ NextMsg <= scope.calls
    /\ BeginCall(NextMsg, TRUE, {}, marshalOk)
    /\ hub' = [pc |-> (IF call'[NextMsg].st = "run" THEN "broadcast" ELSE "select"),
               arg |-> {}]
    /\ UNCHANGED <<started, crashed, clients, h, owner, open, rd, wr, Send,
                   closed, written, closeFrame, enq, closeCalls, faults, evicted, scope, rk,
                   ask, needStore, notes, otherVars>>

\* The registry has a client of user u.
HasClient(u, cl) == \E c \in cl : owner[c] = u

\* IsUserConnected(userID), called from a request goroutine: RLock and the
\* start of the range over ws.clients.  start records whether the registry
\* had a client of the user at that moment.
IsUserConnected(userID) ==
    /\ ~crashed
    /\ ask.st # "run"
    /\ hub.pc \notin {"register", "unregister"}
    /\ ask' = [st |-> "run", u |-> userID, start |-> HasClient(userID, clients),
               ret |-> FALSE]
    /\ UNCHANGED <<hubVars, scope, rk, needStore, notes, otherVars>>

\* A query that also counts the clients that were evicted.
IsUserConnectedCounting ==
    /\ ~crashed
    /\ ask.st = "run"
    /\ ask' = [ask EXCEPT !.st = "done",
                          !.ret = HasClient(ask.u, clients \cup evicted)]
    /\ UNCHANGED <<hubVars, scope, rk, needStore, notes, otherVars>>

\* The range ends: return true at a client of the user, false once the range
\* is exhausted; RUnlock.  Only an eviction can have changed the registry in
\* between (the hub loop's Lock waits): a client evicted during the range
\* was seen or not, a client still present is seen.
IsUserConnectedReturn ==
    /\ ~crashed
    /\ ask.st = "run"
    /\ \E r \in BOOLEAN :
         /\ r => ask.start
         /\ ~r => ~HasClient(ask.u, clients)
         /\ ask' = [ask EXCEPT !.st = "done", !.ret = r]
    /\ UNCHANGED <<hubVars, scope, rk, needStore, notes, otherVars>>

\* The call has dealt with client c: the range yields another client that is
\* in the registry and was not visited, or the loop ends and RUnlock runs.
Advance(m, cl) ==
    LET vis == call[m].visited \cup call[m].cur
        todo == {c \in cl : c \notin vis /\ Targets(m, c)}
    IN  /\ IF todo = {}
             THEN call' = [call EXCEPT ![m] = Ended(m)]
             ELSE \E n \in todo :
                    call' = [call EXCEPT ![m].cur = {n}, ![m].visited = vis]
        /\ hub' = IF call[m].bcast /\ todo = {}
                    THEN [pc |-> "select", arg |-> {}] ELSE hub

\* select { case client.Send <- data: } : the channel has room.
Enqueue(m, c) ==
    /\ c \in clients
    /\ ~closed[c]
    /\ Len(Send[c]) < scope.cap
    /\ Send' = [Send EXCEPT ![c] = Append(@, m)]
    /\ enq' = [enq EXCEPT ![c] = Append(@, m)]
    /\ Advance(m, clients)
    /\ UNCHANGED <<started, crashed, clients, h, owner, open, rd, wr, closed,
                   written, closeFrame, closeCalls, faults, evicted, missed, scope, rk,
                   ask, needStore, notes, otherVars>>

\* client.Send <- data without the select: the call waits for room.
SendBlocking(m, c) ==
    /\ Len(Send[c]) < scope.cap
    /\ Enqueue(m, c)

\* select { default: close(client.Send); delete(ws.clients, client.ID) } :
\* the channel is full.  The delete is made under the read lock only.
Evict(m, c) ==
    /\ c \in clients
    /\ ~closed[c]
    /\ Len(Send[c]) >= scope.cap
    /\ closed' = [closed EXCEPT ![c] = TRUE]
    /\ closeCalls' = [closeCalls EXCEPT ![c] = @ + 1]
    /\ clients' = clients \ {c}
    /\ evicted' = evicted \cup {c}
    /\ Advance(m, clients \ {c})
    /\ UNCHANGED <<started, crashed, h, owner, open, rd, wr, Send,
                   written, closeFrame, enq, faults, missed, scope, rk,
                   ask, needStore, notes, otherVars>>

\* The same eviction while another call ranges over the registry: the map is
\* written and read (or written twice) at once, and the runtime may stop the
\* process with "concurrent map writes" / "concurrent map iteration and map
\* write".
EvictRace(m, c) ==
    /\ c \in clients
    /\ ~closed[c]
    /\ Len(Send[c]) >= scope.cap
    /\ Readers # {m} \/ ask.st = "run"
    /\ closed' = [closed EXCEPT ![c] = TRUE]
    /\ closeCalls' = [closeCalls EXCEPT ![c] = @ + 1]
    /\ Die("concurrent map writes")
    /\ UNCHANGED <<started, clients, owner, Send, written, closeFrame, enq,
                   evicted, missed, scope, rk,
                   ask, needStore, notes, otherVars>>

\* Another call evicted c after the range of this call had come to it and
\* before the range yielded it: c is no longer seen.
Skip(m, c) ==
    /\ c \notin clients
    /\ Advance(m, clients)
    /\ UNCHANGED <<started, crashed, clients, h, owner, open, rd, wr, Send,
                   closed, written, closeFrame, enq, closeCalls, faults, evicted, missed, scope, rk,
                   ask, needStore, notes, otherVars>>

\* Another call evicted c while this call was in the loop body for c: the
\* select finds the channel closed and panics ("send"), or this call had
\* found the channel full as well and closes it a second time ("close").
\* The deferred RUnlock runs; in a request handler gin recovers the panic, in
\* the hub loop nothing does and the process dies.
Stale(m, c, what) ==
    /\ c \notin clients
    /\ closed[c]
    /\ LET fault == IF what = "send" THEN "send on closed channel"
                                      ELSE "close of closed channel"
       IN  IF call[m].bcast
             THEN /\ Die(fault)
                  /\ UNCHANGED <<started, clients, owner, Send, closed, written,
                                 closeFrame, enq>>
             ELSE /\ faults' = faults \cup {fault}
                  /\ call' = [call EXCEPT ![m] = Ended(m)]
                  /\ UNCHANGED <<started, crashed, clients, hub, h, owner, open,
                                 rd, wr, Send, closed, written, closeFrame, enq>>
    /\ closeCalls' = [closeCalls EXCEPT ![c] = IF what = "close" THEN @ + 1 ELSE @]
    /\ UNCHANGED <<evicted, missed, scope, rk,
                   ask, needStore, notes, otherVars>>

\* One pass through the loop body of a send call.
LoopBody(m) ==
    /\ call[m].st = "run"
    /\ \E c \in call[m].cur :
         \/ Enqueue(m, c)
         \/ Evict(m, c)
         \/ EvictRace(m, c)
         \/ Skip(m, c)
         \/ \E what \in {"send", "close"} : Stale(m, c, what)

(***************************************************************************)
(* Match Ranker.  Scores are fixed-point numbers in thousandths (1000 is    *)
(* 1.0), a combined score is their product in millionths; an embedding is   *)
(* a sequence of small integers, a location a position in metres along a    *)
(* meridian, on which the haversine distance is the difference.             *)
(***************************************************************************)

\* if combinedScore > 0.3, in millionths.
Threshold == 300000
\* limit = 10 when limit <= 0.
DefaultLimit == 10
\* Longest pool of freely chosen candidates.
MaxPool == 3
\* Longest pool of the graded family (candidates one kilometre apart).
MaxLongPool == 13

\* sqrt: ten steps of Newton's method from z = x, in thousandths, each
\* quotient rounded to the nearest.
RECURSIVE newton(_, _, _)
newton(z, x, i) ==
    IF i = 0 THEN z ELSE newton(z - ((z * z - x * 1000000 + z) \div (2 * z)), x, i - 1)

sqrt(x) == IF x <= 0 THEN 0 ELSE newton(x * 1000, x, 10)

RECURSIVE sumProducts(_, _, _)
sumProducts(a, b, i) ==
    IF i = 0 THEN 0 ELSE a[i] * b[i] + sumProducts(a, b, i - 1)

\* A similarity that takes a missing embedding to be similar to everything.
CalculateSimilarityOfMissing(embedding1, embedding2) ==
    IF Len(embedding1) = 0 \/ Len(embedding2) = 0
      THEN [err |-> "", val |-> 1000]
    ELSE IF Len(embedding1) # Len(embedding2)
      THEN [err |-> "embedding dimensions do not match", val |-> 0]
    ELSE LET n == Len(embedding1)
             dotProduct == sumProducts(embedding1, embedding2, n)
             norm1 == sqrt(sumProducts(embedding1, embedding1, n))
             norm2 == sqrt(sumProducts(embedding2, embedding2, n))
         IN  IF norm1 = 0 \/ norm2 = 0
               THEN [err |-> "", val |-> 0]
               ELSE [err |-> "", val |-> (dotProduct * 1000000) \div ((norm1 * norm2) \div 1000)]

\* A similarity that looks at the norms before the lengths.
CalculateSimilarityNormFirst(embedding1, embedding2) ==
    IF \/ Len(embedding1) # 0
          /\ sumProducts(embedding1, embedding1, Len(embedding1)) = 0
       \/ Len(embedding2) # 0
          /\ sumProducts(embedding2, embedding2, Len(embedding2)) = 0
      THEN [err |-> "", val |-> 0]
    ELSE IF Len(embedding1) # Len(embedding2)
      THEN [err |-> "embedding dimensions do not match", val |-> 0]
    ELSE IF Len(embedding1) = 0
      THEN [err |-> "embeddings cannot be empty", val |-> 0]
    ELSE LET n == Len(embedding1)
             dotProduct == sumProducts(embedding1, embedding2, n)
             norm1 == sqrt(sumProducts(embedding1, embedding1, n))
             norm2 == sqrt(sumProducts(embedding2, embedding2, n))
         IN  [err |-> "", val |-> (dotProduct * 1000000) \div ((norm1 * norm2) \div 1000)]

\* CalculateSimilarity: an error when the lengths differ, then when the
\* vectors are empty; 0 when a norm is 0; otherwise the cosine.
CalculateSimilarity(embedding1, embedding2) ==
    IF Len(embedding1) # Len(embedding2)
      THEN [err |-> "embedding dimensions do not match", val |-> 0]
    ELSE IF Len(embedding1) = 0
      THEN [err |-> "embeddings cannot be empty", val |-> 0]
    ELSE LET n == Len(embedding1)
             dotProduct == sumProducts(embedding1, embedding2, n)
             norm1 == sqrt(sumProducts(embedding1, embedding1, n))
             norm2 == sqrt(sumProducts(embedding2, embedding2, n))
         IN  IF norm1 = 0 \/ norm2 = 0
               THEN [err |-> "", val |-> 0]
               ELSE [err |-> "", val |-> (dotProduct * 1000000) \div ((norm1 * norm2) \div 1000)]

\* calculateDistance: metres between two locations.
calculateDistance(loc1, loc2) == IF loc1 >= loc2 THEN loc1 - loc2 ELSE loc2 - loc1

\* exp(x) for x >= 0 in thousandths, by its power series.
RECURSIVE expSeries(_, _, _)
expSeries(x, term, n) ==
    IF term = 0 THEN 0 ELSE term + expSeries(x, (term * x) \div (1000 * n), n + 1)

\* calculateDistanceScore: exp(-distanceKm / 10).
calculateDistanceScore(distance) == 1000000 \div expSeries(distance \div 10, 1000, 1)

\* The Match of a subject and a candidate that passed.
Match(needID, volunteerID, score, distance) ==
    [NeedID |-> needID, VolunteerID |-> volunteerID, Score |-> score, Distance |-> distance]

\* sort.Slice(matches, Score descending) is not a stable sort: it returns
\* some arrangement of the matches in which no match has a larger score
\* than a match before it.
RECURSIVE sortSlice(_)
sortSlice(ms) ==
    IF ms = {} THEN {<<>>}
    ELSE LET top == {m \in ms : \A o \in ms : o.Score <= m.Score}
         IN  UNION {{<<m>> \o t : t \in sortSlice(ms \ {m})} : m \in top}

\* A truncation that keeps the end of the slice: matches[len(matches)-limit:].
truncateTail(matches, limit) ==
    IF Len(matches) > limit
      THEN SubSeq(matches, Len(matches) - limit + 1, Len(matches)) ELSE matches

\* if len(matches) > limit { matches = matches[:limit] }
truncate(matches, limit) ==
    IF Len(matches) > limit THEN SubSeq(matches, 1, limit) ELSE matches

\* The loop with the test combinedScore >= 0.3.
needMatchesAtLeast(need, volunteers) ==
    {Match(need.ID, volunteers[i].ID,
           CalculateSimilarity(need.Embedding, volunteers[i].Embedding).val
             * calculateDistanceScore(calculateDistance(need.Location, volunteers[i].Location)),
           calculateDistance(need.Location, volunteers[i].Location)) :
       i \in {j \in 1..Len(volunteers) :
                /\ Len(volunteers[j].Embedding) # 0
                /\ CalculateSimilarity(need.Embedding, volunteers[j].Embedding).err = ""
                /\ CalculateSimilarity(need.Embedding, volunteers[j].Embedding).val
                     * calculateDistanceScore(
                         calculateDistance(need.Location, volunteers[j].Location)) >= Threshold}}

\* The loop of FindMatchesForNeed: the matches appended, as a set (their
\* identities differ).
needMatches(need, volunteers) ==
    {Match(need.ID, volunteers[i].ID,
           CalculateSimilarity(need.Embedding, volunteers[i].Embedding).val
             * calculateDistanceScore(calculateDistance(need.Location, volunteers[i].Location)),
           calculateDistance(need.Location, volunteers[i].Location)) :
       i \in {j \in 1..Len(volunteers) :
                /\ Len(volunteers[j].Embedding) # 0
                /\ CalculateSimilarity(need.Embedding, volunteers[j].Embedding).err = ""
                /\ CalculateSimilarity(need.Embedding, volunteers[j].Embedding).val
                     * calculateDistanceScore(
                         calculateDistance(need.Location, volunteers[j].Location)) > Threshold}}

\* A filter that keeps a need until after the instant it expires ($gte).
getActiveNeedsNotBefore(needs, now) ==
    SelectSeq(needs, LAMBDA need :
                /\ need.Status \in {"requested", "matched"}
                /\ need.ExpiresAt = {} \/ \E t \in need.ExpiresAt : t >= now)

\* getActiveNeeds: the needs of the collection whose status is "requested"
\* or "matched" and that have no expires_at (ExpiresAt is a nil pointer,
\* here the empty set) or one greater than time.Now().
getActiveNeeds(needs, now) ==
    SelectSeq(needs, LAMBDA need :
                /\ need.Status \in {"requested", "matched"}
                /\ need.ExpiresAt = {} \/ \E t \in need.ExpiresAt : t > now)

\* The loop of FindMatchesForVolunteer giving up at the first need whose
\* similarity cannot be computed.
volunteerMatchesAbort(volunteer, needs) ==
    {Match(needs[i].ID, volunteer.ID,
           CalculateSimilarity(volunteer.Embedding, needs[i].Embedding).val
             * calculateDistanceScore(calculateDistance(needs[i].Location, volunteer.Location)),
           calculateDistance(needs[i].Location, volunteer.Location)) :
       i \in {j \in 1..Len(needs) :
                /\ \A k \in 1..j :
                     /\ Len(needs[k].Embedding) # 0
                     /\ CalculateSimilarity(volunteer.Embedding, needs[k].Embedding).err = ""
                /\ CalculateSimilarity(volunteer.Embedding, needs[j].Embedding).val
                     * calculateDistanceScore(
                         calculateDistance(needs[j].Location, volunteer.Location)) > Threshold}}

\* The loop of FindMatchesForVolunteer.
volunteerMatches(volunteer, needs) ==
    {Match(needs[i].ID, volunteer.ID,
           CalculateSimilarity(volunteer.Embedding, needs[i].Embedding).val
             * calculateDistanceScore(calculateDistance(needs[i].Location, volunteer.Location)),
           calculateDistance(needs[i].Location, volunteer.Location)) :
       i \in {j \in 1..Len(needs) :
                /\ Len(needs[j].Embedding) # 0
                /\ CalculateSimilarity(volunteer.Embedding, needs[j].Embedding).err = ""
                /\ CalculateSimilarity(volunteer.Embedding, needs[j].Embedding).val
                     * calculateDistanceScore(
                         calculateDistance(needs[j].Location, volunteer.Location)) > Threshold}}

\* FindMatchesForNeed with the default taken for a negative limit only.
FindMatchesForNeedNegative ==
    /\ rk.pc = "idle" /\ rk.who = "need"
    /\ LET limit == IF rk.limit < 0 THEN DefaultLimit ELSE rk.limit
       IN  IF ~rk.fetchOk
             THEN rk' = [rk EXCEPT !.pc = "done", !.res = <<>>, !.err = TRUE]
             ELSE \E sorted \in sortSlice(needMatches(rk.subject, rk.pool)) :
                    rk' = [rk EXCEPT !.pc = "done", !.res = truncate(sorted, limit),
                                     !.err = FALSE]
    /\ UNCHANGED <<started, crashed, clients, hub, h, owner, open, rd, wr, Send,
                   closed, call, written, closeFrame, enq, closeCalls, faults, evicted,
                   missed, scope, ask, needStore, notes, otherVars>>

\* FindMatchesForNeed(ctx, need, limit): the pool is what getActiveVolunteers
\* returns, or the fetch fails.
FindMatchesForNeed ==
    /\ rk.pc = "idle" /\ rk.who = "need"
    /\ LET limit == IF rk.limit <= 0 THEN DefaultLimit ELSE rk.limit
       IN  IF ~rk.fetchOk
             THEN rk' = [rk EXCEPT !.pc = "done", !.res = <<>>, !.err = TRUE]
             ELSE \E sorted \in sortSlice(needMatches(rk.subject, rk.pool)) :
                    rk' = [rk EXCEPT !.pc = "done", !.res = truncate(sorted, limit),
                                     !.err = FALSE]
    /\ UNCHANGED <<started, crashed, clients, hub, h, owner, open, rd, wr, Send,
                   closed, call, written, closeFrame, enq, closeCalls, faults, evicted,
                   missed, scope, ask, needStore, notes, otherVars>>

\* FindMatchesForVolunteer returning, with the error of a failed fetch, the
\* matches of the needs it has.
FindMatchesForVolunteerPartial ==
    /\ rk.pc = "idle" /\ rk.who = "volunteer"
    /\ LET limit == IF rk.limit <= 0 THEN DefaultLimit ELSE rk.limit
       IN  \E sorted \in sortSlice(volunteerMatches(rk.subject,
                                                         getActiveNeeds(rk.pool, rk.now))) :
             rk' = [rk EXCEPT !.pc = "done", !.res = truncate(sorted, limit),
                              !.err = ~rk.fetchOk]
    /\ UNCHANGED <<started, crashed, clients, hub, h, owner, open, rd, wr, Send,
                   closed, call, written, closeFrame, enq, closeCalls, faults, evicted,
                   missed, scope, ask, needStore, notes, otherVars>>

\* FindMatchesForVolunteer(ctx, volunteer, limit): rk.pool is the needs
\* collection, of which getActiveNeeds returns the active ones, or the fetch
\* fails.
FindMatchesForVolunteer ==
    /\ rk.pc = "idle" /\ rk.who = "volunteer"
    /\ LET limit == IF rk.limit <= 0 THEN DefaultLimit ELSE rk.limit
       IN  IF ~rk.fetchOk
             THEN rk' = [rk EXCEPT !.pc = "done", !.res = <<>>, !.err = TRUE]
             ELSE \E sorted \in sortSlice(volunteerMatches(rk.subject,
                                                         getActiveNeeds(rk.pool, rk.now))) :
                    rk' = [rk EXCEPT !.pc = "done", !.res = truncate(sorted, limit),
                                     !.err = FALSE]
    /\ UNCHANGED <<started, crashed, clients, hub, h, owner, open, rd, wr, Send,
                   closed, call, written, closeFrame, enq, closeCalls, faults, evicted,
                   missed, scope, ask, needStore, notes, otherVars>>

\* The records a pool is drawn from: embedding and location of a candidate.
\* With the subject <<1, 0>> at 0 they are: no embedding; another dimension;
\* a zero vector; similarity 1 at 0 km, 2 km, 12.04 km (combined 0.3) and
\* 50 km; similarity 0.6 at 0 km and at 6.931 km (combined 0.3).
Kinds == {[Embedding |-> <<>>, Location |-> 0],
          [Embedding |-> <<1>>, Location |-> 0],
          [Embedding |-> <<0, 0>>, Location |-> 0],
          [Embedding |-> <<1, 0>>, Location |-> 0],
          [Embedding |-> <<1, 0>>, Location |-> 2000],
          [Embedding |-> <<1, 0>>, Location |-> 12040],
          [Embedding |-> <<1, 0>>, Location |-> 50000],
          [Embedding |-> <<3, 4>>, Location |-> 0],
          [Embedding |-> <<3, 4>>, Location |-> 6931]}

\* A candidate of a pool: as a need it is open and does not expire.
Candidate(i, k) == [ID |-> i, Embedding |-> k.Embedding, Location |-> k.Location,
                    Status |-> "requested", ExpiresAt |-> {}]

\* Pools of up to MaxPool candidates of any kinds, and the graded pools: n
\* candidates with the subject's embedding, one kilometre apart, nearest
\* first or farthest first.
Pools ==
    UNION {{[i \in 1..n |-> Candidate(i, f[i])] : f \in [1..n -> Kinds]} : n \in 0..MaxPool}
    \cup {[i \in 1..n |-> Candidate(i, [Embedding |-> <<1, 0>>, Location |-> 1000 * (i - 1)])] :
            n \in (DefaultLimit + 1)..MaxLongPool}
    \cup {[i \in 1..n |-> Candidate(i, [Embedding |-> <<1, 0>>, Location |-> 1000 * (n - i)])] :
            n \in (DefaultLimit + 1)..MaxLongPool}

Subjects == {[ID |-> 0, Embedding |-> <<1, 0>>, Location |-> 0],
             [ID |-> 0, Embedding |-> <<>>, Location |-> 0]}

Limits == {-1, 0, 1, 2}

\* A ranking request: a subject, what the store returns, and a limit.
InitRank ==
    /\ NewWebSocketService
    /\ HandlersIdle
    /\ started = TRUE
    /\ scope = [conns |-> 0, calls |-> 0, cap |-> SendCap]
    /\ rk \in [pc : {"idle"}, who : {"need", "volunteer"}, subject : Subjects,
                pool : Pools, fetchOk : BOOLEAN, limit : Limits, now : {0},
                res : {<<>>}, err : {FALSE}]

NextRank == FindMatchesForNeed \/ FindMatchesForVolunteer

SpecRank == InitRank /\ [][NextRank]_vars

\* Most needs in a collection whose statuses and expiries vary.
MaxStored == 2

\* The instant of the fetch, between the expiries 1 and 3.
Statuses == {"requested", "matched", "in_progress", "completed", "cancelled"}
Expiries == {{}, {1}, {2}, {3}}

\* Collections of up to MaxStored records that all match the subject <<1, 0>>
\* at 0, of any status and expiry.
StoredPools ==
    UNION {{[i \in 1..n |-> [ID |-> i, Embedding |-> <<1, 0>>, Location |-> 0,
                             Status |-> f[i][1], ExpiresAt |-> f[i][2]]] :
              f \in [1..n -> Statuses \X Expiries]} : n \in 0..MaxStored}

\* A ranking request at instant 2 over such a collection.
InitStored ==
    /\ NewWebSocketService
    /\ HandlersIdle
    /\ started = TRUE
    /\ scope = [conns |-> 0, calls |-> 0, cap |-> SendCap]
    /\ rk \in [pc : {"idle"}, who : {"need", "volunteer"},
                subject : {[ID |-> 0, Embedding |-> <<1, 0>>, Location |-> 0]},
                pool : StoredPools, fetchOk : BOOLEAN, limit : {0, 1}, now : {2},
                res : {<<>>}, err : {FALSE}]

SpecStored == InitStored /\ [][NextRank]_vars

\* Longest embedding of a similarity call.
MaxDim == 3

\* The embeddings of up to MaxDim components.
Vectors == UNION {[1..n -> {-1, 0, 1}] : n \in 0..MaxDim}

\* A call CalculateSimilarity(embedding1, embedding2) and its two results.
CallSimilarity ==
    /\ sim.pc = "idle"
    /\ LET r == CalculateSimilarity(sim.embedding1, sim.embedding2)
       IN  sim' = [sim EXCEPT !.pc = "done", !.val = r.val, !.err = r.err]
    /\ UNCHANGED <<hubVars, scope, rk, ask, needStore, notes, volunteerStore, resp,
                   accept, tasks, auth>>

InitSim ==
    /\ NewWebSocketService
    /\ started = TRUE
    /\ scope = [conns |-> 0, calls |-> 0, cap |-> SendCap]
    /\ rk = RankIdle
    /\ ask = NoAnswer
    /\ needStore = [n \in NeedIDs |-> NoNeed]
    /\ notes = NoNotes
    /\ volunteerStore = Volunteers
    /\ resp = NoResponse
    /\ accept = [u \in Users |-> NoAccept]
    /\ tasks = <<>>
    /\ auth = NoAuth
    /\ sim \in [pc : {"idle"}, embedding1 : Vectors, embedding2 : Vectors,
                 val : {0}, err : {""}]

SpecSim == InitSim /\ [][CallSimilarity]_vars

(***************************************************************************)
(* The request handlers of needs.  Identities are hex strings of object    *)
(* ids: a user, a need and a volunteer profile never share one.            *)
(***************************************************************************)

\* The embeddings GenerateNeedEmbedding gives for the texts of a request.
NeedEmbeddings == {<<1, 0>>, <<0, 1>>}

\* primitive.NewObjectID(): the next unused need identity.
NewNeedID(n) ==
    /\ needStore[n].Status = "none"
    /\ \A o \in NeedIDs : needStore[o].Status = "none" => o = n \/ n = "n1"

\* CreateNeed by user userID: the need is inserted with status "requested";
\* when UpdateNeedEmbedding fails (no embedding is stored) the handler answers
\* 500 and returns; else FindMatchesForNeed(ctx, &need, 5), whose error is
\* ignored, and with at least one match NotifyNewNeed(need, volunteerIDs),
\* where volunteerIDs are the VolunteerID fields of the matches, i.e.
\* SendToMultipleUsers of them; the answer is then 201.
CreateNeed(userID, n, embedding, embedOk, fetchOk) ==
    /\ ~crashed
    /\ NewNeedID(n)
    /\ needStore' = [needStore EXCEPT ![n] =
                       [UserID |-> userID, Status |-> "requested",
                        Embedding |-> IF embedOk THEN embedding ELSE <<>>]]
    /\ resp' = [op |-> "CreateNeed", status |-> IF embedOk THEN 201 ELSE 500,
                embedOk |-> embedOk, id |-> n]
    /\ LET need == [ID |-> n, Embedding |-> embedding, Location |-> 0]
       IN  \E sorted \in sortSlice(needMatches(need, volunteerStore)) :
             LET matches == IF embedOk /\ fetchOk THEN truncate(sorted, 5) ELSE <<>>
                 volunteerIDs == {matches[i].VolunteerID : i \in 1..Len(matches)}
             IN  IF Len(matches) > 0
                   THEN /\ NextMsg <= scope.calls
                        /\ hub.pc \notin {"register", "unregister"}
                        /\ BeginCall(NextMsg, FALSE, volunteerIDs, TRUE)
                        /\ notes' = [notes EXCEPT !.newNeed =
                                       @ \cup {<<NextMsg, n, volunteerIDs>>}]
                   ELSE UNCHANGED <<call, missed, notes>>
    /\ UNCHANGED <<started, crashed, clients, hub, h, owner, open, rd, wr, Send,
                   closed, written, closeFrame, enq, closeCalls, faults, evicted,
                   scope, rk, ask, sim, volunteerStore, accept, tasks, auth>>

\* primitive.NewObjectID() of a profile: the next unused profile identity.
ProfileIDs == <<"v1", "v2">>

\* CreateProfile by user userID: 409 when the user has a profile; else the
\* profile is inserted, and when UpdateVolunteerEmbedding fails (no
\* embedding is stored) the handler answers 500 and returns; else 201.
CreateProfile(userID, embedding, embedOk) ==
    /\ ~crashed
    /\ Len(volunteerStore) < Len(ProfileIDs)
    /\ IF \E i \in 1..Len(volunteerStore) : volunteerStore[i].UserID = userID
         THEN /\ resp' = [op |-> "CreateProfile", status |-> 409, embedOk |-> TRUE,
                          id |-> "none"]
              /\ UNCHANGED volunteerStore
         ELSE LET id == ProfileIDs[Len(volunteerStore) + 1]
              IN  /\ volunteerStore' = Append(volunteerStore,
                                          [ID |-> id, UserID |-> userID,
                                           Embedding |-> IF embedOk THEN embedding ELSE <<>>,
                                           Location |-> 0])
                  /\ resp' = [op |-> "CreateProfile",
                              status |-> IF embedOk THEN 201 ELSE 500,
                              embedOk |-> embedOk, id |-> id]
    /\ UNCHANGED <<hubVars, scope, rk, ask, needStore, notes, sim, accept, tasks, auth>>

\* AcceptNeed of need n by user userID, up to FindOne: 404 when no need n
\* has the status "requested", 400 when the need is the user's own; else the
\* handler goes on with the need it found.  A user makes one such request.
AcceptNeed(userID, n) ==
    /\ ~crashed
    /\ accept[userID].pc = "idle"
    /\ accept' = [accept EXCEPT ![userID] =
                    IF needStore[n].Status # "requested"
                      THEN [pc |-> "done", n |-> n, status |-> 404]
                    ELSE IF needStore[n].UserID = userID
                      THEN [pc |-> "done", n |-> n, status |-> 400]
                    ELSE [pc |-> "found", n |-> n, status |-> 0]]
    /\ UNCHANGED <<hubVars, scope, rk, ask, needStore, notes, sim, volunteerStore,
                   resp, tasks, auth>>

\* tasksCollection.InsertOne(task): a task of the need for this user, or 500.
AcceptNeedInsert(userID, ok) ==
    /\ ~crashed
    /\ accept[userID].pc = "found"
    /\ IF ok
         THEN /\ tasks' = Append(tasks, [NeedID |-> accept[userID].n,
                                         VolunteerID |-> userID])
              /\ accept' = [accept EXCEPT ![userID].pc = "inserted"]
         ELSE /\ accept' = [accept EXCEPT ![userID].pc = "done", ![userID].status = 500]
              /\ UNCHANGED tasks
    /\ UNCHANGED <<hubVars, scope, rk, ask, needStore, notes, sim, volunteerStore, resp,
                   auth>>

\* needsCollection.UpdateOne by _id sets the status "matched" (or 500); then
\* NotifyNeedAccepted(needID, userID, "Volunteer") runs, which is
\* SendToUser(needID, message), and the answer is 200.
AcceptNeedUpdate(userID, ok) ==
    /\ ~crashed
    /\ accept[userID].pc = "inserted"
    /\ IF ok
         THEN /\ NextMsg <= scope.calls
              /\ hub.pc \notin {"register", "unregister"}
              /\ needStore' = [needStore EXCEPT ![accept[userID].n].Status = "matched"]
              /\ BeginCall(NextMsg, FALSE, {accept[userID].n}, TRUE)
              /\ notes' = [notes EXCEPT !.accepted = @ \cup {<<NextMsg, accept[userID].n>>}]
              /\ accept' = [accept EXCEPT ![userID].pc = "done", ![userID].status = 200]
         ELSE /\ accept' = [accept EXCEPT ![userID].pc = "done", ![userID].status = 500]
              /\ UNCHANGED <<needStore, call, missed, notes>>
    /\ UNCHANGED <<started, crashed, clients, hub, h, owner, open, rd, wr, Send,
                   closed, written, closeFrame, enq, closeCalls, faults, evicted,
                   scope, rk, ask, sim, volunteerStore, resp, tasks, auth>>

(***************************************************************************)
(* The ranker's results, stated on the request and the returned list.       *)
(***************************************************************************)

\* The candidate a returned match pairs the subject with.
MatchCandidate(m) == rk.pool[IF rk.who = "need" THEN m.VolunteerID ELSE m.NeedID]

\* Cosine similarity times distance decay of a candidate, in millionths; -1
\* when the candidate has no embedding or the similarity cannot be computed.
CombinedScore(cand) ==
    IF Len(cand.Embedding) = 0
         \/ CalculateSimilarity(rk.subject.Embedding, cand.Embedding).err # ""
      THEN -1
      ELSE CalculateSimilarity(rk.subject.Embedding, cand.Embedding).val
             * calculateDistanceScore(calculateDistance(rk.subject.Location, cand.Location))

\* The candidates of the pool that pass the threshold.
Passing == {j \in 1..Len(rk.pool) : CombinedScore(rk.pool[j]) > 300000}

Returned == {MatchCandidate(rk.res[i]).ID : i \in 1..Len(rk.res)}

\* C4: every returned match carries the combined score of its candidate, and
\* that score is strictly greater than 0.3; a candidate whose combined score
\* is 0.3 or less is never returned.
C4_ScoresAboveThreshold ==
    rk.pc = "done" =>
      /\ \A i \in 1..Len(rk.res) :
            /\ rk.res[i].Score = CombinedScore(MatchCandidate(rk.res[i]))
            /\ rk.res[i].Score > 300000
      /\ \A j \in 1..Len(rk.pool) :
            CombinedScore(rk.pool[j]) <= 300000 => rk.pool[j].ID \notin Returned

\* A request has returned matches from a pool that also holds a candidate
\* whose combined score is 0.3 exactly.
C4_Witness ==
    /\ rk.pc = "done" /\ rk.res # <<>>
    /\ \E j \in 1..Len(rk.pool) :
         CombinedScore(rk.pool[j]) = 300000 /\ rk.pool[j].ID \notin Returned

\* C5: the returned list is sorted by score, non-increasing, and when the
\* passing candidates were truncated each one left out scores no more than
\* every match returned.
C5_SortedBestFirst ==
    rk.pc = "done" /\ ~rk.err =>
      /\ \A i \in 1..Len(rk.res) : \A k \in 1..Len(rk.res) :
            i < k => rk.res[i].Score >= rk.res[k].Score
      /\ \A j \in Passing : rk.pool[j].ID \notin Returned =>
            \A i \in 1..Len(rk.res) : CombinedScore(rk.pool[j]) <= rk.res[i].Score

\* A request has returned fewer matches than passed, at least two of them,
\* with different scores.
C5_Witness ==
    /\ rk.pc = "done" /\ ~rk.err
    /\ Len(rk.res) < Cardinality(Passing)
    /\ Len(rk.res) >= 2 /\ rk.res[1].Score > rk.res[2].Score

\* C6: a request whose fetch succeeds returns min(L, number of passing
\* candidates) matches, where L is the limit when it is positive and 10
\* otherwise.
C6_ResultLength ==
    rk.pc = "done" /\ ~rk.err =>
      LET L == IF rk.limit > 0 THEN rk.limit ELSE 10
          n == Cardinality(Passing)
      IN  Len(rk.res) = IF L < n THEN L ELSE n

\* A request with a limit of 0 or less has returned 10 of more than 10
\* passing candidates.
C6_Witness ==
    rk.pc = "done" /\ ~rk.err /\ rk.limit <= 0 /\ Cardinality(Passing) > 10
      /\ Len(rk.res) = 10

\* The hub with its loop running (go ws.Start()), no connection yet.
Init ==
    /\ NewWebSocketService
    /\ HandlersIdle
    /\ started = TRUE
    /\ scope = [conns |-> LiveConns, calls |-> MaxCalls, cap |-> SendCap]
    /\ rk = RankIdle

InitOne ==
    /\ NewWebSocketService
    /\ HandlersIdle
    /\ started = TRUE
    /\ scope = [conns |-> 1, calls |-> OneConnCalls, cap |-> OneConnCap]
    /\ rk = RankIdle

\* LiveConns connections and no send call.
InitConn ==
    /\ NewWebSocketService
    /\ HandlersIdle
    /\ started = TRUE
    /\ scope = [conns |-> LiveConns, calls |-> 0, cap |-> SendCap]
    /\ rk = RankIdle

\* The life of the connections alone: the handlers, the pumps and the
\* register and unregister cases of the hub loop.
NextConn ==
    \/ \E c \in Conns, u \in Users : HandleWebSocket(c, u)
    \/ \E c \in Conns : RecvRegister(c)
    \/ Register
    \/ \E c \in Conns : SendWelcome(c)
    \/ \E c \in Conns : readPump(c)
    \/ \E c \in Conns : RecvUnregister(c)
    \/ \E c \in Conns : readPumpClose(c)
    \/ Unregister
    \/ \E c \in Conns, ok \in BOOLEAN : writeMessage(c, ok)
    \/ \E c \in Conns, ok \in BOOLEAN : writeClose(c, ok)
    \/ \E c \in Conns : writePing(c)

SpecConn == InitConn /\ [][NextConn]_vars

\* One connection, the shorter queue and fewer calls.
InitSmall ==
    /\ NewWebSocketService
    /\ HandlersIdle
    /\ started = TRUE
    /\ scope = [conns |-> 1, calls |-> MaxCalls, cap |-> SendCap]
    /\ rk = RankIdle

Next ==
    \/ \E c \in Conns, u \in Users : HandleWebSocket(c, u)
    \/ \E c \in Conns : RecvRegister(c)
    \/ Register
    \/ \E c \in Conns : SendWelcome(c)
    \/ \E c \in Conns : readPump(c)
    \/ \E c \in Conns : RecvUnregister(c)
    \/ \E c \in Conns : readPumpClose(c)
    \/ Unregister
    \/ \E c \in Conns, ok \in BOOLEAN : writeMessage(c, ok)
    \/ \E c \in Conns, ok \in BOOLEAN : writeClose(c, ok)
    \/ \E c \in Conns : writePing(c)
    \/ \E u \in Users, ok \in BOOLEAN : SendToUser(u, ok)
    \/ \E ids \in SUBSET Users, ok \in BOOLEAN : SendToMultipleUsers(ids, ok)
    \/ \E ok \in BOOLEAN : RecvBroadcast(ok)
    \/ \E m \in Msgs : LoopBody(m)

Spec == Init /\ [][Next]_vars

SpecOne == InitOne /\ [][Next]_vars

\* MaxConns connections are registered and greeted; each writePump has or has
\* not yet written the greeting.
InitSend ==
    /\ started = TRUE
    /\ crashed = FALSE
    /\ clients = Conns
    /\ hub = [pc |-> "select", arg |-> {}]
    /\ h = [c \in Conns |-> "done"]
    /\ owner \in [Conns -> Users] /\ owner[1] = "u1"
    /\ open = [c \in Conns |-> TRUE]
    /\ rd = [c \in Conns |-> "run"]
    /\ wr = [c \in Conns |-> "run"]
    /\ Send \in [Conns -> {<<>>, <<Welcome>>}]
    /\ closed = [c \in Conns |-> FALSE]
    /\ call = [m \in Msgs |-> NoCall]
    /\ written = [c \in Conns |-> IF Send[c] = <<>> THEN <<Welcome>> ELSE <<>>]
    /\ closeFrame = [c \in Conns |-> FALSE]
    /\ enq = [c \in Conns |-> <<Welcome>>]
    /\ closeCalls = [c \in Conns |-> 0]
    /\ faults = {}
    /\ evicted = {}
    /\ missed = {}
    /\ HandlersIdle
    /\ scope = [conns |-> MaxConns, calls |-> MaxCalls, cap |-> SendCap]
    /\ rk = RankIdle

\* The send calls alone: no writePump takes a message off a queue.
NextSend ==
    \/ \E u \in Users, ok \in BOOLEAN : SendToUser(u, ok)
    \/ \E ids \in SUBSET Users, ok \in BOOLEAN : SendToMultipleUsers(ids, ok)
    \/ \E ok \in BOOLEAN : RecvBroadcast(ok)
    \/ \E m \in Msgs : LoopBody(m)

SpecSend == InitSend /\ [][NextSend]_vars

\* The send calls and the registry query of a request goroutine.
NextQuery ==
    \/ NextSend
    \/ \E u \in Users : IsUserConnected(u)
    \/ IsUserConnectedReturn

SpecQuery == InitSend /\ [][NextQuery]_vars

\* The handlers of needs; a need is created by a connected user or by u3,
\* a user without a connection.
NextNotify ==
    \/ \E u \in Users \cup {"u3"}, n \in NeedIDs, em \in NeedEmbeddings,
          embedOk \in BOOLEAN, fetchOk \in BOOLEAN : CreateNeed(u, n, em, embedOk, fetchOk)
    \/ \E u \in Users, n \in NeedIDs : AcceptNeed(u, n)
    \/ \E u \in Users, ok \in BOOLEAN : AcceptNeedInsert(u, ok)
    \/ \E u \in Users, ok \in BOOLEAN : AcceptNeedUpdate(u, ok)

\* The requests that create needs and volunteer profiles.
NextCreate ==
    \/ \E u \in Users, n \in NeedIDs, em \in NeedEmbeddings, embedOk \in BOOLEAN,
          fetchOk \in BOOLEAN : CreateNeed(u, n, em, embedOk, fetchOk)
    \/ \E u \in Users, em \in NeedEmbeddings, embedOk \in BOOLEAN :
          CreateProfile(u, em, embedOk)

\* Both collections are empty and nobody is connected.
InitCreate ==
    /\ NewWebSocketService
    /\ started = TRUE
    /\ scope = [conns |-> 0, calls |-> MaxCalls, cap |-> SendCap]
    /\ rk = RankIdle
    /\ ask = NoAnswer
    /\ needStore = [n \in NeedIDs |-> NoNeed]
    /\ notes = NoNotes
    /\ sim = NoSim
    /\ volunteerStore = <<>>
    /\ resp = NoResponse
    /\ accept = [u \in Users |-> NoAccept]
    /\ tasks = <<>>
    /\ auth = NoAuth

SpecCreate == InitCreate /\ [][NextCreate]_vars

\* LiveConns connections are registered and greeted, no need is in the store.
InitNotify ==
    /\ started = TRUE
    /\ crashed = FALSE
    /\ clients = 1..LiveConns
    /\ hub = [pc |-> "select", arg |-> {}]
    /\ h = [c \in Conns |-> IF c <= LiveConns THEN "done" ELSE "new"]
    /\ owner \in [Conns -> Users]
    /\ owner[1] = "u1" /\ \A c \in Conns : c > LiveConns => owner[c] = "u1"
    /\ open = [c \in Conns |-> c <= LiveConns]
    /\ rd = [c \in Conns |-> IF c <= LiveConns THEN "run" ELSE "none"]
    /\ wr = [c \in Conns |-> IF c <= LiveConns THEN "run" ELSE "none"]
    /\ Send \in [Conns -> {<<>>, <<Welcome>>}]
    /\ \A c \in Conns : c > LiveConns => Send[c] = <<>>
    /\ closed = [c \in Conns |-> FALSE]
    /\ call = [m \in Msgs |-> NoCall]
    /\ written = [c \in Conns |-> IF c <= LiveConns /\ Send[c] = <<>>
                                    THEN <<Welcome>> ELSE <<>>]
    /\ closeFrame = [c \in Conns |-> FALSE]
    /\ enq = [c \in Conns |-> IF c <= LiveConns THEN <<Welcome>> ELSE <<>>]
    /\ closeCalls = [c \in Conns |-> 0]
    /\ faults = {}
    /\ evicted = {}
    /\ missed = {}
    /\ HandlersIdle
    /\ scope = [conns |-> LiveConns, calls |-> MaxCalls, cap |-> SendCap]
    /\ rk = RankIdle

SpecNotify == InitNotify /\ [][NextNotify]_vars

SpecSmall == InitSmall /\ [][Next]_vars

\* The send calls and the writePumps are scheduled whenever they can take a
\* step; nothing obliges the peers, the callers, the ticker or the transport.
FairSmall ==
    /\ SpecSmall
    /\ \A m \in Msgs : WF_vars(LoopBody(m))
    /\ \A c \in Conns : WF_vars(\E ok \in BOOLEAN : writeMessage(c, ok))
    /\ \A c \in Conns : WF_vars(\E ok \in BOOLEAN : writeClose(c, ok))

\* Every goroutine that can take a step is scheduled: the send calls, the
\* pumps and the hub loop, whose select takes a ready case again and again;
\* ReadMessage fails once the transport is closed.  Nothing obliges the
\* peers, the callers, the ticker or a transport that is open.
FairLife ==
    /\ FairSmall
    /\ WF_vars(Register)
    /\ WF_vars(Unregister)
    /\ \A c \in Conns : SF_vars(RecvUnregister(c))
    /\ \A c \in Conns : WF_vars(readPumpClose(c))
    /\ \A c \in Conns : WF_vars(~open[c] /\ readPump(c))

\* The goroutine of a send call is scheduled until the call returns.
FairSend == SpecSend /\ \A m \in Msgs : WF_vars(LoopBody(m))

\* The service ends.  Start is a for { select } without an exit and the
\* service has no Stop or Close: the hub loop ends with the process only,
\* when router.Run returns and main calls log.Fatal, or on a signal (main
\* installs no handler).  Every goroutine ends where it is.
Exit ==
    /\ ~crashed
    /\ Die("log.Fatal")
    /\ UNCHANGED <<started, clients, owner, Send, closed, written, closeFrame,
                   enq, closeCalls, evicted, missed, scope, rk,
                   ask, needStore, notes, otherVars>>

NextExit ==
    \/ Next
    \/ Exit

SpecExit == InitSmall /\ [][NextExit]_vars

\* The scheduling of FairLife.
FairExit ==
    /\ SpecExit
    /\ \A m \in Msgs : WF_vars(LoopBody(m))
    /\ \A c \in Conns : WF_vars(\E ok \in BOOLEAN : writeMessage(c, ok))
    /\ \A c \in Conns : WF_vars(\E ok \in BOOLEAN : writeClose(c, ok))
    /\ WF_vars(Register)
    /\ WF_vars(Unregister)
    /\ \A c \in Conns : SF_vars(RecvUnregister(c))
    /\ \A c \in Conns : WF_vars(readPumpClose(c))
    /\ \A c \in Conns : WF_vars(~open[c] /\ readPump(c))

\* main: NewWebSocketService() builds the service and the handlers get it;
\* router.Run then serves the requests.  Nothing calls Start, so no
\* goroutine runs the hub loop.
main ==
    /\ NewWebSocketService
    /\ HandlersIdle
    /\ started = FALSE
    /\ scope = [conns |-> MaxConns, calls |-> MaxCalls, cap |-> SendCap]
    /\ rk = RankIdle

\* The requests of the system main wires: GET /ws and the notifications of
\* the need handlers.  The cases of the hub loop are no steps of it.
NextMain ==
    \/ \E c \in Conns, u \in Users : HandleWebSocket(c, u)
    \/ \E u \in Users, ok \in BOOLEAN : SendToUser(u, ok)
    \/ \E ids \in SUBSET Users, ok \in BOOLEAN : SendToMultipleUsers(ids, ok)

SpecMain == main /\ [][NextMain]_vars

\* A receive on ws.register is taken as soon as a goroutine offers one.
FairMain ==
    /\ SpecMain
    /\ \A c \in Conns : WF_vars(RecvRegister(c))
    /\ WF_vars(Register)

(***************************************************************************)
(* AuthService.  A token is the record of its claims with two flags: signed *)
(* (the signature verifies with jwtSecret) and fresh (exp is in the         *)
(* future); jwt.Parse accepts a token that is both.                         *)
(***************************************************************************)

\* The tokens a client may present: user_id is a user of the collection, a
\* user that is not in it ("gone") or not a string ("number"); type is as
\* issued, another string, or absent ("none").
Tokens ==
    [user_id : Users \cup {"gone", "number"},
     type : {"access", "refresh", "other", "none"},
     signed : BOOLEAN, fresh : BOOLEAN]

generateAccessToken(userID) ==
    [user_id |-> userID, type |-> "access", signed |-> TRUE, fresh |-> TRUE]

generateRefreshToken(userID) ==
    [user_id |-> userID, type |-> "refresh", signed |-> TRUE, fresh |-> TRUE]

\* RefreshToken(ctx, refreshToken): jwt.Parse, the user_id claim, the user
\* of the collection, and a new pair of tokens.
RefreshToken(token) ==
    /\ auth' = [op |-> "RefreshToken", token |-> token,
                err |-> IF ~token.signed \/ ~token.fresh THEN "invalid refresh token"
                        ELSE IF token.user_id = "number" THEN "invalid user ID in token"
                        ELSE IF token.user_id \notin Users THEN "user not found"
                        ELSE "",
                pair |-> IF token.signed /\ token.fresh /\ token.user_id \in Users
                           THEN <<generateAccessToken(token.user_id),
                                  generateRefreshToken(token.user_id)>>
                           ELSE <<>>]
    /\ UNCHANGED <<hubVars, scope, rk, ask, needStore, notes, sim, volunteerStore, resp,
                   accept, tasks>>

\* ValidateToken(tokenString): jwt.Parse, the user_id claim, and the type
\* claim, which must be "access".
ValidateToken(token) ==
    /\ auth' = [op |-> "ValidateToken", token |-> token,
                err |-> IF ~token.signed \/ ~token.fresh THEN "invalid token"
                        ELSE IF token.user_id = "number" THEN "invalid user ID in token"
                        ELSE IF token.type # "access" THEN "invalid token type"
                        ELSE "",
                pair |-> <<>>]
    /\ UNCHANGED <<hubVars, scope, rk, ask, needStore, notes, sim, volunteerStore, resp,
                   accept, tasks>>

NextAuth ==
    \/ \E token \in Tokens : RefreshToken(token)
    \/ \E token \in Tokens : ValidateToken(token)

InitAuth ==
    /\ NewWebSocketService
    /\ HandlersIdle
    /\ started = TRUE
    /\ scope = [conns |-> 0, calls |-> 0, cap |-> SendCap]
    /\ rk = RankIdle

SpecAuth == InitAuth /\ [][NextAuth]_vars

(***************************************************************************)
(* The hub's sends, stated on the queues, the registry and the history of   *)
(* what was enqueued (enq) and written (written).                           *)
(***************************************************************************)

\* How often x occurs in a sequence.
Count(x, seq) == Cardinality({i \in DOMAIN seq : seq[i] = x})

\* The place of the first x in a sequence, 0 when there is none.
Pos(x, seq) ==
    IF Count(x, seq) = 0 THEN 0
    ELSE CHOOSE i \in DOMAIN seq : seq[i] = x /\ \A k \in DOMAIN seq : seq[k] = x => i <= k

\* Call m ends with this step (it returns, panics or dies with the process).
Ends(m) == call[m].st = "run" /\ call'[m].st # "run"

\* C1: a targeted send enqueues its message exactly once on every registered
\* connection whose owner is in S and whose queue has room, and on no other
\* connection; with no registered connection of an owner in S the call
\* changes no queue and no registry entry and reports no error.
C1_TargetedSend ==
    [][\A m \in Msgs :
         /\ call[m].st = "run" /\ ~call[m].bcast =>
              /\ \A c \in Conns :
                   /\ Count(m, enq'[c]) <= 1
                   /\ Count(m, enq'[c]) > Count(m, enq[c]) =>
                        /\ c \in clients /\ owner[c] \in call[m].S
                        /\ Len(Send[c]) < scope.cap
                        /\ Send'[c] = Append(Send[c], m)
              /\ Ends(m) =>
                   \A c \in clients' : owner[c] \in call[m].S => Count(m, enq'[c]) = 1
         /\ call[m].st = "none" /\ call'[m].st = "run" /\ ~call'[m].bcast =>
              \E c \in clients : owner[c] \in call'[m].S
         /\ call[m].st = "none" /\ call'[m].st = "done" =>
              /\ Send' = Send /\ clients' = clients /\ closed' = closed
              /\ faults' = faults
      ]_vars

\* C2: a send that comes to a registered connection whose queue is full
\* removes it from the registry and closes its queue in that step, without
\* enqueuing its message on it, and the writer of an evicted connection
\* eventually writes a close frame and closes the transport.
C2_FullQueueEviction ==
    /\ [][\A m \in Msgs : \A c \in Conns :
             (/\ call[m].st = "run" /\ call[m].cur = {c}
              /\ c \in clients /\ ~closed[c] /\ Len(Send[c]) >= scope.cap
              /\ call'[m] # call[m]) =>
               /\ c \notin clients' /\ closed'[c]
               /\ Send'[c] = Send[c] /\ enq'[c] = enq[c]]_vars
    /\ \A c \in Conns : (c \in evicted) ~> (closeFrame[c] /\ ~open[c])

\* C3: the step that evicts a connection leaves the registry entry and the
\* queue of every other connection as they were, and a broadcast that begins
\* after an eviction is on the queue of every registered connection when it
\* ends.
C3_EvictionFrame ==
    [][/\ \A c \in evicted' \ evicted : \A d \in Conns \ {c} :
            /\ d \in clients <=> d \in clients'
            /\ closed'[d] = closed[d]
            /\ Send'[d] = Send[d]
       /\ \A m \in Msgs :
            call[m].bcast /\ call[m].late /\ Ends(m) =>
              \A d \in clients' : Count(m, enq'[d]) = 1]_vars

\* C7: every send call that has begun its loop ends, whatever the queues
\* hold and although no writer takes a message off a queue.
C7_SendsTerminate ==
    \A m \in Msgs : (call[m].st = "run") ~> (call[m].st # "run")

\* Every queue was full, a call has returned and every connection is evicted.
C7_Witness ==
    /\ evicted = Conns /\ clients = {} /\ faults = {}
    /\ \E m \in Msgs : call[m].st = "done"
    /\ \A c \in Conns : \A m \in Msgs : Count(m, enq[c]) = 0

\* C8: when the call for m1 had ended before the call for m2 began, m1 is
\* on the queue history of c and m2 was written to c, m1 was written to c
\* before m2.
C8_SendOrder ==
    \A c \in Conns : \A m1 \in Msgs : \A m2 \in Msgs :
      (m1 \in call[m2].after /\ Count(m1, enq[c]) > 0 /\ Count(m2, written[c]) > 0) =>
        /\ Count(m1, written[c]) > 0
        /\ Pos(m1, written[c]) < Pos(m2, written[c])

\* Two messages of calls made one after the other were written to c.
C8_Witness ==
    \E c \in Conns : \E m1 \in Msgs : \E m2 \in Msgs :
      /\ m1 \in call[m2].after
      /\ Count(m1, written[c]) > 0 /\ Count(m2, written[c]) > 0

\* C9: no message is written to a connection more than once, and a message
\* sent for a user who had no registered connection is neither put on the
\* queue of a connection of that user nor written to it.
C9_AtMostOnce ==
    \A c \in Conns :
      /\ \A m \in Msgs : Count(m, written[c]) <= 1
      /\ \A p \in missed :
           owner[c] = p[2] /\ h[c] # "new" =>
             Count(p[1], Send[c]) = 0 /\ Count(p[1], written[c]) = 0

\* A user missed a message, registered a connection later, and a later
\* message was written to that connection.
C9_Witness ==
    \E c \in clients : \E p \in missed : \E m \in Msgs :
      owner[c] = p[2] /\ Count(m, written[c]) = 1

\* The hub loop has unregistered c (closed its queue without evicting it).
Unregistered(c) == closed[c] /\ c \notin clients /\ c \notin evicted

\* The step that processes an unregister request removes a registered
\* connection and closes its queue once, and changes nothing for a
\* connection that is not in the registry.
UnregisterStep ==
    [][hub.pc = "unregister" /\ hub'.pc = "select" =>
         \A c \in hub.arg :
           IF c \in clients
             THEN /\ c \notin clients' /\ closed'[c]
                  /\ closeCalls'[c] = closeCalls[c] + 1
             ELSE /\ clients' = clients /\ closed' = closed
                  /\ closeCalls' = closeCalls /\ Send' = Send]_vars

\* C10 as stated: after the unregistration the writer eventually writes a
\* close frame and terminates.
C10_UnregisterCloseFrame ==
    /\ UnregisterStep
    /\ \A c \in Conns : Unregistered(c) ~> (closeFrame[c] /\ wr[c] = "exit")

\* C10: after the unregistration the writer eventually is not running and
\* the transport is closed; a close frame is written only by a writer that
\* found the queue closed and then stopped.
C10_UnregisterWriterStops ==
    /\ UnregisterStep
    /\ \A c \in Conns : Unregistered(c) ~> (wr[c] # "run" /\ ~open[c])
    /\ [](\A c \in Conns : closeFrame[c] => closed[c] /\ wr[c] = "exit")

\* c was unregistered, its writer wrote the close frame and stopped.
C10_Witness ==
    \E c \in Conns : Unregistered(c) /\ closeFrame[c] /\ wr[c] = "exit" /\ ~open[c]

\* A read or a write on the transport of the registered connection c failed.
Failed(c) == c \in clients /\ (rd[c] \in {"unreg", "close", "exit"} \/ wr[c] = "exit")

\* c is out of the registry, its queue and its transport are closed.
Closed(c) == c \notin clients /\ closed[c] /\ ~open[c]

\* C11: a registered connection on which a read or a write failed
\* eventually is out of the registry with its queue and its transport
\* closed, and a connection in that state stays in it.
C11_FailureCloses ==
    /\ \A c \in Conns : Failed(c) ~> Closed(c)
    /\ [][\A c \in Conns : Closed(c) => Closed(c)']_vars

\* C12: the step that processes a registration adds the connection's
\* identity to the registry and takes no entry out, whoever owns the
\* connections; an identity that is in the registry already stays there
\* once.
C12_KeyedByConnection ==
    [][hub.pc = "register" /\ hub'.pc = "select" =>
         /\ clients' = clients \cup hub.arg
         /\ \A c \in hub.arg :
              Cardinality(clients') = Cardinality(clients \ {c}) + 1]_vars

\* Two connections of one user are in the registry.
C12_Witness ==
    \E c \in clients : \E d \in clients : c # d /\ owner[c] = owner[d]

\* C13: a broadcast puts its message exactly once on the queue of every
\* connection that is registered and has room, whoever owns it, and on no
\* queue without room: when it ends every registered connection has it.
C13_Broadcast ==
    [][\A m \in Msgs :
         /\ call[m].st = "run" /\ call[m].bcast =>
              /\ \A c \in Conns :
                   /\ Count(m, enq'[c]) <= 1
                   /\ Count(m, enq'[c]) > Count(m, enq[c]) =>
                        /\ c \in clients /\ Len(Send[c]) < scope.cap
                        /\ Send'[c] = Append(Send[c], m)
              /\ Ends(m) => \A c \in clients' : Count(m, enq'[c]) = 1
         /\ call[m].st = "none" /\ call'[m].st = "run" /\ call'[m].bcast =>
              clients # {}
      ]_vars

\* The pool without the candidates that have no embedding or whose
\* similarity with the subject cannot be computed.
Bad(cand) == CombinedScore(cand) = -1
GoodPool == SelectSeq(rk.pool, LAMBDA cand : ~Bad(cand))

\* The lists a ranking pass over pool may return.
Rankings(pool) ==
    LET limit == IF rk.limit <= 0 THEN 10 ELSE rk.limit
        kept == IF rk.who = "need" THEN needMatches(rk.subject, pool)
                                   ELSE volunteerMatches(rk.subject, pool)
    IN  {truncate(sorted, limit) : sorted \in sortSlice(kept)}

\* C15: a candidate with no embedding, or whose embedding has another length
\* than the subject's, is not in the result and makes the pass return no
\* error; what is returned is a list the pass may return for the pool
\* without those candidates.
C15_BadCandidateSkipped ==
    rk.pc = "done" /\ rk.fetchOk =>
      /\ ~rk.err
      /\ \A j \in 1..Len(rk.pool) : Bad(rk.pool[j]) => rk.pool[j].ID \notin Returned
      /\ rk.res \in Rankings(GoodPool)

\* A pass has returned a match from a pool in which a bad candidate comes
\* before a passing one.
C15_Witness ==
    /\ rk.pc = "done" /\ rk.res # <<>>
    /\ \E j \in 1..Len(rk.pool) : \E k \in Passing :
         j < k /\ Bad(rk.pool[j]) /\ rk.pool[k].ID \in Returned

\* C16: a ranking request whose fetch of the candidate pool fails returns an
\* error and no match at all, for a need and for a volunteer alike; a request
\* whose fetch succeeds returns no error.
C16_FetchFailureAborts ==
    rk.pc = "done" =>
      /\ rk.err = ~rk.fetchOk
      /\ rk.err => rk.res = <<>>

\* A request has failed on the fetch of a pool that holds passing candidates.
C16_Witness == rk.pc = "done" /\ rk.err /\ ~rk.fetchOk /\ Passing # {}

\* C17: among returned matches with equal scores the one at the smaller
\* distance comes first, and at equal distance the one whose candidate has
\* the smaller identity, so that the returned list is a function of the set
\* of candidates.
C17_TieBreak ==
    rk.pc = "done" =>
      \A i \in 1..Len(rk.res) : \A k \in 1..Len(rk.res) :
        i < k /\ rk.res[i].Score = rk.res[k].Score =>
          \/ rk.res[i].Distance < rk.res[k].Distance
          \/ /\ rk.res[i].Distance = rk.res[k].Distance
             /\ MatchCandidate(rk.res[i]).ID < MatchCandidate(rk.res[k]).ID

\* C20: a send whose message cannot be serialized is dropped: the call
\* returns at once, no queue, no history of a queue, the registry and the set
\* of evicted connections do not change, nothing panics or stops, the hub loop
\* stays where it was, and the message is never enqueued afterwards.
C20_MarshalFailureDropsSend ==
    [][\A m \in Msgs :
         /\ call[m].st = "none" /\ call'[m].st # "none" /\ ~call'[m].ok =>
              /\ call'[m].st = "done"
              /\ UNCHANGED <<clients, Send, closed, enq, evicted, closeCalls,
                             faults, crashed, hub>>
         /\ call[m].st # "none" /\ ~call[m].ok =>
              /\ call'[m] = call[m]
              /\ \A c \in Conns : Count(m, enq'[c]) = 0
      ]_vars

\* A send was dropped while a registered connection had room for it, and a
\* later send was enqueued.
C20_Witness ==
    \E m \in Msgs :
      /\ call[m].st = "done" /\ ~call[m].ok
      /\ \E c \in clients : Len(Send[c]) < scope.cap
      /\ \E n \in Msgs : \E c \in Conns : m \in call[n].after /\ Count(n, enq[c]) = 1

\* The users that own the volunteer profiles ids.
ProfileOwners(ids) == {Volunteers[i].UserID : i \in {j \in 1..Len(Volunteers) : Volunteers[j].ID \in ids}}

\* C18: once the need_accepted notification of an accepted need has been
\* sent, it is exactly once on the queue history of every registered
\* connection of the user who created the need, and on no connection of
\* another user.
C18_NeedAcceptedToOwner ==
    \A p \in notes.accepted :
      call[p[1]].st = "done" =>
        \A c \in Conns :
          /\ c \in clients /\ owner[c] = needStore[p[2]].UserID => Count(p[1], enq[c]) = 1
          /\ owner[c] # needStore[p[2]].UserID => Count(p[1], enq[c]) = 0

\* C19: once the new_need notification of a created need has been sent, it
\* is exactly once on the queue history of every registered connection of a
\* user who owns a volunteer profile of the ranking result, and on no
\* connection of another user.
C19_NewNeedToMatchedVolunteers ==
    \A p \in notes.newNeed :
      call[p[1]].st = "done" =>
        \A c \in Conns :
          /\ c \in clients /\ owner[c] \in ProfileOwners(p[3]) => Count(p[1], enq[c]) = 1
          /\ owner[c] \notin ProfileOwners(p[3]) => Count(p[1], enq[c]) = 0

\* C23: CalculateSimilarity of two vectors of different lengths returns an
\* error and the score 0, also when one of them is empty or is a zero
\* vector; without an error the lengths are equal.
C23_DimensionMismatch ==
    sim.pc = "done" =>
      /\ Len(sim.embedding1) # Len(sim.embedding2) =>
            sim.err = "embedding dimensions do not match" /\ sim.val = 0
      /\ sim.err = "" => Len(sim.embedding1) = Len(sim.embedding2)

\* A zero vector was compared with a vector of another length that is not
\* empty.
C23_Witness ==
    /\ sim.pc = "done" /\ sim.err # ""
    /\ Len(sim.embedding1) > 0 /\ Len(sim.embedding2) > Len(sim.embedding1)
    /\ \A i \in 1..Len(sim.embedding1) : sim.embedding1[i] = 0

\* C29: a ranking request for a need or a volunteer that has no embedding,
\* whose fetch of the pool succeeds, returns the empty list and no error
\* whatever the pool holds.
C29_SubjectWithoutEmbedding ==
    rk.pc = "done" /\ Len(rk.subject.Embedding) = 0 /\ rk.fetchOk =>
      rk.res = <<>> /\ ~rk.err

\* Such a request has returned for a pool that holds a candidate with an
\* embedding and a candidate without one.
C29_Witness ==
    /\ rk.pc = "done" /\ Len(rk.subject.Embedding) = 0 /\ rk.fetchOk
    /\ \E j \in 1..Len(rk.pool) : \E k \in 1..Len(rk.pool) :
         Len(rk.pool[j].Embedding) = 0 /\ Len(rk.pool[k].Embedding) = 2

\* The needs of the collection that are eligible at the instant of the fetch.
Eligible ==
    {j \in 1..Len(rk.pool) :
       /\ rk.pool[j].Status \in {"requested", "matched"}
       /\ \A t \in rk.pool[j].ExpiresAt : t > rk.now}

\* C21: FindMatchesForVolunteer returns no match for a need whose status is
\* not requested or matched, or whose expiry is at or before the instant of
\* the fetch; the eligible needs, those without an expiry among them, are
\* the candidates: as many of them are returned as the limit allows.
C21_OnlyActiveNeeds ==
    rk.pc = "done" /\ rk.who = "volunteer" /\ ~rk.err =>
      /\ \A i \in 1..Len(rk.res) : rk.res[i].NeedID \in Eligible
      /\ LET L == IF rk.limit > 0 THEN rk.limit ELSE 10
             n == Cardinality(Eligible \cap Passing)
         IN  Len(rk.res) = IF L < n THEN L ELSE n

\* A request has returned a need without an expiry from a collection that
\* also holds a need expiring at the instant of the fetch and a completed one.
C21_Witness ==
    /\ rk.pc = "done" /\ rk.who = "volunteer"
    /\ \E i \in 1..Len(rk.res) : rk.pool[rk.res[i].NeedID].ExpiresAt = {}
    /\ \E j \in 1..Len(rk.pool) :
         rk.pool[j].ExpiresAt = {rk.now} \/ rk.pool[j].Status = "completed"

\* C22: a request that creates a need or a volunteer profile while the
\* embedding cannot be generated still succeeds: the entity is stored
\* without an embedding and the response is 201.
C22_EmbeddingFailureDegrades ==
    resp.op \in {"CreateNeed", "CreateProfile"} /\ ~resp.embedOk =>
      /\ resp.status = 201
      /\ resp.op = "CreateNeed" =>
            /\ needStore[resp.id].Status = "requested"
            /\ needStore[resp.id].Embedding = <<>>
      /\ resp.op = "CreateProfile" =>
            \E i \in 1..Len(volunteerStore) :
              volunteerStore[i].ID = resp.id /\ volunteerStore[i].Embedding = <<>>

\* C28: whatever the interleaving of the AcceptNeed requests of different
\* users for one need, at most one of them is answered 200 and the tasks
\* collection holds at most one task of the need.
C28_OneTaskPerNeed ==
    \A n \in NeedIDs :
      /\ Cardinality({i \in 1..Len(tasks) : tasks[i].NeedID = n}) <= 1
      /\ Cardinality({u \in Users : accept[u].n = n /\ accept[u].status = 200}) <= 1

\* C30: RefreshToken issues a pair of tokens only for a valid token whose
\* type is refresh; a valid access token is rejected.
C30_RefreshNeedsRefreshToken ==
    auth.op = "RefreshToken" /\ auth.err = "" =>
      /\ auth.token.signed /\ auth.token.fresh
      /\ auth.token.type = "refresh"

\* C26: every insertion into and every removal from the registry is made
\* with the exclusive registry lock held: by the hub loop's register or
\* unregister case, while no send call and no query holds the read lock.
C26_ExclusiveLockMutation ==
    [][clients' # clients =>
         /\ hub.pc \in {"register", "unregister"}
         /\ hub'.pc = "select"
         /\ Readers = {}
         /\ ask.st # "run"]_vars

\* C25: in every interleaving of the send calls, the unregister case and the
\* handler's greeting send, the Send channel of a connection is closed at
\* most once and nothing is sent on it after it was closed.
C25_CloseOnceNoSendAfterClose ==
    /\ \A c \in Conns : closeCalls[c] <= 1
    /\ "close of closed channel" \notin faults
    /\ "send on closed channel" \notin faults

\* C27: in the system as main wires it, every connection whose handler has
\* upgraded the request of an authenticated user and offers the client on
\* ws.register is eventually in the registry.
C27_HandshakeRegisters ==
    \A c \in Conns : (h[c] = "register") ~> (c \in clients)

\* The step in which the hub loop ends closes the Send channel of every
\* connection that is in the registry.
TeardownStep ==
    [][hub.pc # "dead" /\ hub'.pc = "dead" =>
         \A c \in clients : closed'[c]]_vars

\* C24: the end of the hub closes the Send channel of every registered
\* connection; afterwards the writePump of each of them returns and no
\* connection is left in the registry.
C24_TeardownClosesQueues ==
    /\ TeardownStep
    /\ \A c \in Conns :
         (hub.pc = "dead" /\ c \in clients) ~>
            (closed[c] /\ wr[c] = "exit" /\ clients = {})

\* C14: IsUserConnected(U) answers true exactly when the registry has a
\* connection owned by U: a true answer means U had a registered connection
\* when the query took the read lock, a false answer means U has none when the
\* query returns (the two agree unless a send evicted U's connection while the
\* query ran), so the answer is false once U's only connection was evicted;
\* the query's steps change neither the registry nor any queue.
C14_IsUserConnected ==
    [][/\ ask.st = "run" /\ ask'.st = "done" =>
            /\ ask'.ret => ask.start
            /\ ~ask'.ret => ~HasClient(ask.u, clients)
            /\ ask.start = HasClient(ask.u, clients) =>
                  ask'.ret = HasClient(ask.u, clients)
       /\ ask' # ask => UNCHANGED <<clients, Send, closed, enq, evicted>>
      ]_vars

C14_Witness ==
    /\ ask.st = "done" /\ ~ask.ret
    /\ \E c \in evicted :
         /\ owner[c] = ask.u
         /\ \A d \in Conns \ {c} : owner[d] # ask.u

====
